---- MODULE Spec2Model ----
(***************************************************************************)
(* Download / cache / serve pipeline of weeklylink-downloader.             *)
(*                                                                         *)
(*   src/working/app.js          IssuuDownloader (downloadFile, ...)       *)
(*   src/working/server.js       CacheManager                              *)
(*   src/working/scheduler.js    DownloadScheduler                         *)
(*   src/working/issueTracker.js IssueTracker and the API routes           *)
(*   src/index.js, src/unnamed/part_000, part_001   root server variants   *)
(*                                                                         *)
(* Files are modelled at the level the code touches them: a directory maps *)
(* names to files, a file holds a sequence of chunks, a write stream       *)
(* owns a descriptor (a file and an offset), fs.unlink / fs.rename act     *)
(* on names.  Node runs every synchronous stretch of code atomically, so   *)
(* one action is one stretch between two suspension points.                *)
(***************************************************************************)
EXTENDS Integers, Sequences, FiniteSets, TLC

\* ------------------------------------------------------------------ bounds
MaxIssue == 2
MaxPayload == 2
MaxPendingUnlinks == 2
MaxTargets == 1
MaxActive == 2
MaxPolls == 1
MaxServed == 1
MaxTextLen == 2
MaxAnchors == 3
\* issue numbers the tracker returns in SpecNames
MaxNumber == 120

Issues == 1..MaxIssue
Payloads == 1..MaxPayload

\* ------------------------------------------------------------ file contents
\* The body served for payload p: p + 1 chunks, each tagged p, so that bodies
\* differ in bytes and in size and every body has proper prefixes.
Size(p) == p + 1
Body(p) == [i \in 1..Size(p) |-> p]
CompleteBodies == {Body(p) : p \in Payloads}

\* ------------------------------------------------------------------- names
RawName(n) == <<"issue", n, "pdf">>
TmpPath_direct(outputPath) == outputPath
TmpPath(outputPath) == Append(outputPath, "tmp")
RawNames == {RawName(n) : n \in Issues}
TmpNames == {TmpPath(o) : o \in RawNames}
DlNames == RawNames \cup TmpNames
EndsWith(name, ext) == name[Len(name)] = ext

Callers == {"cli", "weekly", "daily", "api", "nightly"}
Absent == [exists |-> FALSE, data |-> <<>>]
File(content) == [exists |-> TRUE, data |-> content]
Orphan == <<"orphan">>
NoFd == <<"none">>

VARIABLES
    dlDir,      \* downloads directory: name -> content, Absent when no entry
    mru,        \* names in the directory, most recently modified first (mtimeMs)
    dl,         \* caller -> its downloadFile call
    unlinks,    \* name -> number of fs.unlink calls issued and not yet executed
    served,     \* the file the last GET /download request chose, and which variant
    cacheDir,   \* cache directory: artifact name -> file (metadata.json apart)
    metadata,   \* cache/metadata.json
    cf,         \* the running CacheManager.cacheFile call, step by step
    tr,         \* trigger -> its run: weekly cron, daily cron, GET /api/download/latest
    rd,         \* the GET /api/cached-file request
    said,       \* the last conclusion the server logged or response it sent
    rs          \* the running IssueTracker.getLatestIssueNumber call

vars == <<dlDir, mru, dl, unlinks, served, cacheDir, metadata, cf, tr, rd, said, rs>>
downloadVars == <<dlDir, mru, dl, unlinks>>
cacheVars == <<cacheDir, metadata, cf>>
apiVars == <<tr, rd, said, rs>>
\* what the steps of downloadFile leave alone
notDownload == <<served, cacheVars, apiVars>>
\* what the steps of cacheFile leave alone
notCache == <<downloadVars, served, apiVars>>

\* cacheFile and the code around its call are synchronous: from its entry to
\* the point where its caller has handled the return or the exception, no
\* callback of the event loop runs.
CfRunning == cf.pc \in {"entered", "cleared", "copied", "hashed", "nohash"}
Busy ==
    \/ CfRunning
    \/ cf.pc \in {"returned", "threw"} /\ cf.caller # "test"
    \/ \E t \in {"weekly", "daily", "api", "cli", "nightly"} :
          \/ tr[t].pc = "fetching" /\ dl[t].pc \in {"resolved", "rejected"}
          \/ tr[t].pc = "polled"

\* A call's descriptor fd is the name its open file is now linked under,
\* Orphan once that file has no name left (unlinked or replaced while
\* open), NoFd when the call holds no descriptor.
IdleCall == [pc |-> "idle", body |-> 0, out |-> <<>>, fd |-> NoFd, pos |-> 0,
             before |-> Absent]

\* ------------------------------------------------------------- file system
Max(a, b) == IF a >= b THEN a ELSE b

Touch(m, n) == <<n>> \o SelectSeq(m, LAMBDA x : x # n)
Drop(m, n) == SelectSeq(m, LAMBDA x : x # n)

\* A write of one chunk at offset pos of a file; a gap left by an offset
\* beyond the end reads as 0 chunks.
WriteAt(content, pos, v) ==
    [i \in 1..Max(Len(content), pos + 1) |->
        IF i = pos + 1 THEN v
        ELSE IF i <= Len(content) THEN content[i] ELSE 0]

\* descriptors after name stops naming its file
Orphaned(calls, name) ==
    [c \in DOMAIN calls |->
        IF calls[c].fd = name THEN [calls[c] EXCEPT !.fd = Orphan] ELSE calls[c]]

\* fs.unlink(name): the entry goes, open descriptors keep the nameless file
Unlink(name) ==
    /\ dlDir' = [dlDir EXCEPT ![name] = Absent]
    /\ mru' = Drop(mru, name)
    /\ dl' = Orphaned(dl, name)

InProgress(c) == dl[c].pc \in {"requested", "piping", "finish", "closed"}
InFlight(outputPath) ==
    Cardinality({c \in Callers : InProgress(c) /\ dl[c].out = outputPath})
\* caller c may enter downloadFile for outputPath: it has no call under way,
\* and the unlinks still pending on the temporary path stay within the bound
CanFetch(c, outputPath) ==
    /\ ~InProgress(c)
    /\ unlinks[TmpPath(outputPath)] + InFlight(outputPath) < MaxPendingUnlinks

\* ------------------------------------------- IssuuDownloader.downloadFile
\* downloadFile(url, outputPath), entered by caller c; the url stands for the
\* body p its server holds.  createWriteStream opens tmpPath with flag 'w':
\* an existing file is truncated in place, a missing one is created.
downloadFile(c, p, outputPath) ==
    LET tmp == TmpPath(outputPath)
    IN  /\ CanFetch(c, outputPath)
        /\ dlDir' = [dlDir EXCEPT ![tmp] = File(<<>>)]
        /\ mru' = Touch(mru, tmp)
        /\ dl' = [dl EXCEPT ![c] =
                [pc |-> "requested", body |-> p, out |-> outputPath, fd |-> tmp,
                 pos |-> 0, before |-> dlDir[outputPath]]]
        /\ UNCHANGED unlinks

\* (Reject_noUnlink: the same without the fs.unlink, for the mutation check.)
\* A failure path: the descriptor is released (file.destroy(), or the
\* stream's own teardown after an error), fs.unlink(tmpPath, cb) is issued
\* and the promise is rejected at once; the unlink itself runs later.
Reject_noUnlink(c) ==
    /\ dl' = [dl EXCEPT ![c].pc = "rejected", ![c].fd = NoFd]
    /\ UNCHANGED <<dlDir, mru, unlinks, notDownload>>

Reject(c) ==
    /\ dl' = [dl EXCEPT ![c].pc = "rejected", ![c].fd = NoFd]
    /\ unlinks' = [unlinks EXCEPT ![TmpPath(dl[c].out)] = @ + 1]
    /\ UNCHANGED <<dlDir, mru, notDownload>>

\* response.statusCode !== 200
DlStatusNot200(c) ==
    /\ ~Busy
    /\ dl[c].pc = "requested"
    /\ Reject(c)

\* request.on('error'): before the response or while it is being received
DlRequestError(c) ==
    /\ ~Busy
    /\ dl[c].pc \in {"requested", "piping"}
    /\ Reject(c)

\* status 200: response.pipe(file) and the response/file handlers are set
DlResponse200(c) ==
    /\ ~Busy
    /\ dl[c].pc = "requested"
    /\ dl' = [dl EXCEPT ![c].pc = "piping"]
    /\ UNCHANGED <<dlDir, mru, unlinks, notDownload>>

\* one chunk of the body is piped into the write stream's descriptor
DlData(c) ==
    /\ ~Busy
    /\ dl[c].pc = "piping"
    /\ dl[c].pos < Size(dl[c].body)
    /\ dl' = [dl EXCEPT ![c].pos = @ + 1]
    /\ IF dl[c].fd \in DlNames
       THEN /\ dlDir' = [dlDir EXCEPT ![dl[c].fd].data = WriteAt(@, dl[c].pos, dl[c].body)]
            /\ mru' = Touch(mru, dl[c].fd)
       ELSE UNCHANGED <<dlDir, mru>>
    /\ UNCHANGED <<unlinks, notDownload>>

\* response.on('error')
DlResponseError(c) ==
    /\ ~Busy
    /\ dl[c].pc = "piping"
    /\ Reject(c)

\* file.on('error')
DlFileError(c) ==
    /\ ~Busy
    /\ dl[c].pc = "piping"
    /\ Reject(c)

\* the response ended, the pipe ended the stream, the stream emitted 'finish'
DlFinish(c) ==
    /\ ~Busy
    /\ dl[c].pc = "piping"
    /\ dl[c].pos = Size(dl[c].body)
    /\ dl' = [dl EXCEPT ![c].pc = "finish"]
    /\ UNCHANGED <<dlDir, mru, unlinks, notDownload>>

\* file.close(cb) with closeErr
DlCloseError(c) ==
    /\ ~Busy
    /\ dl[c].pc = "finish"
    /\ Reject(c)

\* file.close(cb) without error: fs.rename(tmpPath, outputPath, cb) is issued
DlCloseOk(c) ==
    /\ ~Busy
    /\ dl[c].pc = "finish"
    /\ dl' = [dl EXCEPT ![c].pc = "closed", ![c].fd = NoFd]
    /\ UNCHANGED <<dlDir, mru, unlinks, notDownload>>

\* fs.rename succeeded: the file named tmpPath is now named outputPath, with
\* its modification time; the file outputPath named before loses its name.
DlRenameOk(c) ==
    LET tmp == TmpPath(dl[c].out)
        out == dl[c].out
        moved == [k \in Callers |->
                    IF dl[k].fd = out THEN [dl[k] EXCEPT !.fd = Orphan]
                    ELSE IF dl[k].fd = tmp THEN [dl[k] EXCEPT !.fd = out]
                    ELSE dl[k]]
    IN  /\ ~Busy
        /\ dl[c].pc = "closed"
        /\ dlDir[tmp] # Absent
        /\ dlDir' = [dlDir EXCEPT ![out] = dlDir[tmp], ![tmp] = Absent]
        /\ mru' = [i \in 1..Len(Drop(mru, out)) |->
                    IF Drop(mru, out)[i] = tmp THEN out ELSE Drop(mru, out)[i]]
        /\ dl' = [moved EXCEPT ![c].pc = "resolved"]
        /\ UNCHANGED <<unlinks, notDownload>>

\* fs.rename failed (renameErr): tmpPath is gone, or the rename is refused
DlRenameError(c) ==
    /\ ~Busy
    /\ dl[c].pc = "closed"
    /\ Reject(c)

\* a pending fs.unlink(tmpPath) runs; a missing file is ignored by its callback
UnlinkDone(name) ==
    /\ ~Busy
    /\ unlinks[name] > 0
    /\ unlinks' = [unlinks EXCEPT ![name] = @ - 1]
    /\ Unlink(name)
    /\ UNCHANGED notDownload

\* ------------------------------------------------ GET /download (root server)
Variants == {"index.js", "part_000"}
NoChoice == [by |-> "none", status |-> 0, name |-> <<>>, data |-> Absent]

\* position of a file in the order of modification times, newest first
Rank(n) == CHOOSE k \in 1..Len(mru) : mru[k] = n

\* files.map(name => ({name, time: mtimeMs})).sort((a, b) => b.time - a.time)[0]
Newest(files) ==
    CHOOSE n \in files : \A m \in files : Rank(n) <= Rank(m)

Listing == {n \in DlNames : dlDir[n] # Absent}

\* src/index.js: allFiles.filter(f => f.endsWith('.pdf') && !f.endsWith('.tmp'))
FilterIndex(files) ==
    {f \in files : EndsWith(f, "pdf") /\ ~EndsWith(f, "tmp")}

\* src/unnamed/part_000: readdirSync(...).filter(f => !f.endsWith('.crdownload'))
FilterPart000(files) == {f \in files : ~EndsWith(f, "crdownload")}

\* The synchronous part of the handler: list, filter, take the newest, hand it
\* to res.sendFile / res.download; 404 when the filtered list is empty.
GetDownload(v, files) ==
    /\ ~Busy
    /\ served' =
            IF files = {}
            THEN [by |-> v, status |-> 404, name |-> <<>>, data |-> Absent]
            ELSE [by |-> v, status |-> 200, name |-> Newest(files),
                  data |-> dlDir[Newest(files)]]
    /\ UNCHANGED <<downloadVars, cacheVars, apiVars>>

GetDownloadIndex == GetDownload("index.js", FilterIndex(Listing))
GetDownloadPart000 == GetDownload("part_000", FilterPart000(Listing))

\* ------------------------------------------------------------ CacheManager
CacheName(n) == <<"latest_issue", n, "pdf">>
CacheNames == {CacheName(n) : n \in Issues}

\* crypto.createHash('sha256').update(fileBuffer).digest('hex'): a function of
\* the bytes, taken to be free of collisions
Sha256(content) == <<"sha256", content>>

\* metadata.json: missing, unparsable, or the object saveMetadata wrote.  An
\* optional field that is left out is the empty tuple.
NoMeta == [kind |-> "none", issueNumber |-> 0, fileName |-> <<>>,
           checksum |-> <<>>, fileSize |-> <<>>]
Corrupt == [NoMeta EXCEPT !.kind = "corrupt"]

\* saveMetadata(issueNumber, checksum = null, fileSize = null)
MetadataFor(issueNumber, checksum, fileSize) ==
    [kind |-> "json", issueNumber |-> issueNumber, fileName |-> CacheName(issueNumber),
     checksum |-> checksum, fileSize |-> fileSize]

\* getMetadata(): null when metadata.json is missing or JSON.parse throws
getMetadata == IF metadata.kind = "json" THEN metadata ELSE NoMeta

isIssueInCache(issueNumber) ==
    getMetadata # NoMeta /\ getMetadata.issueNumber = issueNumber

\* (isCacheUpToDate_newerOnly: > in the place of >=.)
isCacheUpToDate_newerOnly(latestIssueNumber) ==
    getMetadata.kind = "json" /\ getMetadata.issueNumber > latestIssueNumber

isCacheUpToDate(latestIssueNumber) ==
    getMetadata # NoMeta /\ getMetadata.issueNumber >= latestIssueNumber

\* getCachedFilePath(): the name of the cached file, <<>> for null
getCachedFilePath ==
    IF getMetadata = NoMeta THEN <<>>
    ELSE IF ~cacheDir[getMetadata.fileName].exists THEN <<>>
    ELSE getMetadata.fileName

\* (clearCache_keep: a clearCache that unlinks nothing.)
clearCache_keep(files) == files

\* clearCache(): every file of the directory but metadata.json is unlinked
clearCache(files) == [f \in DOMAIN files |-> Absent]

\* (copyFileSync_firstName: a copy whose destination ignores issueNumber.)
copyFileSync_firstName(files, source, issueNumber) ==
    [files EXCEPT ![CacheName(1)] = File(source.data)]

\* fs.copyFileSync(sourceFilePath, cacheFilePath)
copyFileSync(files, source, issueNumber) ==
    [files EXCEPT ![CacheName(issueNumber)] = File(source.data)]

\* The cache as a reader finds it: the metadata and the file it names.
Slot(meta, files) ==
    [meta |-> IF meta.kind = "json" THEN meta ELSE NoMeta,
     file |-> IF meta.kind = "json" THEN files[meta.fileName] ELSE Absent]

IdleCf == [pc |-> "idle", caller |-> "test", src |-> <<>>, issueNumber |-> 0, sum |-> <<>>,
           size |-> <<>>, old |-> Slot(NoMeta, [f \in CacheNames |-> Absent]),
           oldFile |-> <<>>, new |-> Absent]

\* (cacheFile_clearFirst: a cacheFile that clears the cache before it looks
\* for the source.)
cacheFile_clearFirst(caller, src, n) ==
    /\ cf' = [pc |-> IF dlDir[src].exists THEN "entered" ELSE "threw",
              caller |-> caller,
              src |-> src, issueNumber |-> n, sum |-> <<>>, size |-> <<>>,
              old |-> Slot(metadata, cacheDir),
              oldFile |-> getCachedFilePath,
              new |-> dlDir[src]]
    /\ cacheDir' = clearCache(cacheDir)
    /\ UNCHANGED metadata

\* cacheFile(sourceFilePath, issueNumber) is entered; a missing source throws
\* before anything is touched.  old and new record the slot before the call
\* and the source bytes, for the properties.
cacheFile(caller, src, n) ==
    /\ cf' = [pc |-> IF dlDir[src].exists THEN "entered" ELSE "threw",
              caller |-> caller,
              src |-> src, issueNumber |-> n, sum |-> <<>>, size |-> <<>>,
              old |-> Slot(metadata, cacheDir),
              oldFile |-> getCachedFilePath,
              new |-> dlDir[src]]
    /\ UNCHANGED <<cacheDir, metadata>>

\* this.clearCache()
CfClear ==
    /\ cf.pc = "entered"
    /\ cacheDir' = clearCache(cacheDir)
    /\ cf' = [cf EXCEPT !.pc = "cleared"]
    /\ UNCHANGED <<metadata, notCache>>

\* fs.copyFileSync(sourceFilePath, cacheFilePath)
CfCopy ==
    /\ cf.pc = "cleared"
    /\ cacheDir' = copyFileSync(cacheDir, dlDir[cf.src], cf.issueNumber)
    /\ cf' = [cf EXCEPT !.pc = "copied"]
    /\ UNCHANGED <<metadata, notCache>>

\* readFileSync, createHash, statSync inside the try block
CfHash ==
    /\ cf.pc = "copied"
    /\ cf' = [cf EXCEPT !.pc = "hashed",
                        !.sum = Sha256(cacheDir[CacheName(cf.issueNumber)].data),
                        !.size = <<Len(cacheDir[CacheName(cf.issueNumber)].data)>>]
    /\ UNCHANGED <<cacheDir, metadata, notCache>>

\* one of them throws: the catch block saves metadata without checksum
CfHashThrows ==
    /\ cf.pc = "copied"
    /\ cf' = [cf EXCEPT !.pc = "nohash"]
    /\ UNCHANGED <<cacheDir, metadata, notCache>>

\* this.saveMetadata(issueNumber, checksum, stats.size), then return
CfSave ==
    /\ cf.pc = "hashed"
    /\ metadata' = MetadataFor(cf.issueNumber, cf.sum, cf.size)
    /\ cf' = [cf EXCEPT !.pc = "returned"]
    /\ UNCHANGED <<cacheDir, notCache>>

\* its writeFileSync throws inside the try block (metadata.json untouched, or
\* truncated): the catch block runs
CfSaveThrows ==
    /\ cf.pc = "hashed"
    /\ metadata' \in {metadata, Corrupt}
    /\ cf' = [cf EXCEPT !.pc = "nohash"]
    /\ UNCHANGED <<cacheDir, notCache>>

\* (CfSaveNoChecksum_skip: a catch block that only logs.)
CfSaveNoChecksum_skip ==
    /\ cf.pc = "nohash"
    /\ cf' = [cf EXCEPT !.pc = "returned"]
    /\ UNCHANGED <<cacheDir, metadata, notCache>>

\* catch: this.saveMetadata(issueNumber), then return
CfSaveNoChecksum ==
    /\ cf.pc = "nohash"
    /\ metadata' = MetadataFor(cf.issueNumber, <<>>, <<>>)
    /\ cf' = [cf EXCEPT !.pc = "returned"]
    /\ UNCHANGED <<cacheDir, notCache>>

\* an exception leaves cacheFile: unlinkSync in clearCache, copyFileSync (the
\* destination is not left behind), or writeFileSync in the catch block
CfThrows ==
    /\ cf.pc \in {"entered", "cleared", "nohash"}
    /\ metadata' \in IF cf.pc = "nohash" THEN {metadata, Corrupt} ELSE {metadata}
    /\ cf' = [cf EXCEPT !.pc = "threw"]
    /\ UNCHANGED <<cacheDir, notCache>>

\* the process dies between two steps of cacheFile; the files stay as they are
CfCrash ==
    /\ CfRunning
    /\ cf' = [cf EXCEPT !.pc = "crashed"]
    /\ UNCHANGED <<cacheDir, metadata, notCache>>

\* ---------------------------------------------------------------- triggers
\* The three places that refresh the cache: the weekly cron tick and the daily
\* cron check of DownloadScheduler, and the handler of GET /api/download/latest.
Triggers == {"weekly", "daily", "api"}
Crons == {"weekly", "daily"}
\* every caller of downloadDocument: the triggers, main() of app.js, and the
\* 1 AM cron job of the root server (src/index.js)
Runs == Triggers \cup {"cli", "nightly"}
\* the answer of checkConversionStatus that is being handled: the status it
\* reports ("error" when the check threw) and whether it carries outputFile
NoAnswer == [status |-> "none", outputFile |-> FALSE]
Answer(status, outputFile) == [status |-> status, outputFile |-> outputFile]
NoPath == [dir |-> "none", name |-> <<>>]
CachePath(name) == [dir |-> "cache", name |-> name]
DownloadsPath(name) == [dir |-> "downloads", name |-> name]
\* (size: the Content-Length header a handler set from fs.statSync, <<>> when
\* none is set)
IdleRun == [pc |-> "idle", n |-> 0, att |-> 0, resp |-> "none",
            seen |-> NoMeta, path |-> NoPath, ans |-> NoAnswer, size |-> <<>>]
IdleRead == [pc |-> "idle", seen |-> NoMeta, path |-> NoPath]
\* what the process last concluded, logged as the end of a run or sent as a
\* response: who, what, about which issue; for a response that serves the
\* cached file, the metadata the handler read and the file its stream opened
Say(by, what, n, seen, got, fileThere) ==
    [by |-> by, what |-> what, n |-> n, seen |-> seen, got |-> got,
     fileThere |-> fileThere]
Note(by, what, n) == Say(by, what, n, NoMeta, Absent, FALSE)
Silent == Note("none", "none", 0)
maxAttempts == 30

Active(t) == tr[t].pc # "idle"
\* fs.statSync / fs.createReadStream on a path: the file there now
FileAt(path) ==
    IF path.dir = "cache" THEN cacheDir[path.name]
    ELSE IF path.dir = "downloads" THEN dlDir[path.name]
    ELSE Absent
\* fs.statSync(path).size (<<>> where statSync throws)
StatSize(path) == IF FileAt(path).exists THEN <<Len(FileAt(path).data)>> ELSE <<>>
\* the run of trigger t is over
End(t) == [tr EXCEPT ![t] = IdleRun]

\* A cron tick or a request arrives; the run starts with an awaited lookup.
\* At most `limit` runs are under way at once.
Start(t, pc, limit) ==
    /\ ~Busy
    /\ ~Active(t)
    /\ Cardinality({u \in Triggers : Active(u)}) < limit
    /\ tr' = [tr EXCEPT ![t] = [IdleRun EXCEPT !.pc = pc]]
    /\ UNCHANGED <<downloadVars, served, rs, cacheVars, rd, said>>

WeeklyTick(limit) == Start("weekly", "resolving", limit)
DailyTick(limit) == Start("daily", "checking", limit)
ApiRequest(limit) == Start("api", "resolving", limit)

\* daily cron: getLatestIssueNumber() answered n (latestIssueNumber, which
\* the callback holds while downloadLatestIssue resolves the id once more)
DailyChecked(n) ==
    /\ ~Busy
    /\ tr["daily"].pc = "checking"
    /\ IF ~isCacheUpToDate(n)
       THEN /\ tr' = [tr EXCEPT !["daily"].pc = "resolving", !["daily"].n = n]
            /\ UNCHANGED said
       ELSE /\ tr' = End("daily")
            /\ said' = Note("daily", "up-to-date", n)
    /\ UNCHANGED <<downloadVars, served, rs, cacheVars, rd>>

\* getLatestIssueNumber() / getLatestIssueUrl() threw: the catch block logs
LookupFails(t) ==
    /\ ~Busy
    /\ tr[t].pc \in {"checking", "resolving"}
    /\ tr' = End(t)
    /\ said' = Note(t, "error", 0)
    /\ UNCHANGED <<downloadVars, served, rs, cacheVars, rd>>

\* (AlreadyDownloaded_unchecked: a refresh that skips the look into downloads.)
AlreadyDownloaded_unchecked(n) == FALSE

\* fs.existsSync(filePath) for downloads/'issue n.pdf'
AlreadyDownloaded(n) == dlDir[RawName(n)].exists

\* downloadLatestIssue after getLatestIssueUrl() answered issue n
SchedResolved(t, n) ==
    /\ ~Busy
    /\ t \in Crons
    /\ tr[t].pc = "resolving"
    /\ IF isIssueInCache(n)
       THEN /\ tr' = End(t)
            /\ said' = Say(t, "already in cache", n, NoMeta, Absent,
                           getCachedFilePath # <<>>)
            /\ UNCHANGED cacheVars
       ELSE IF AlreadyDownloaded(n)
       THEN /\ tr' = [tr EXCEPT ![t].pc = "caching", ![t].n = n]
            /\ cacheFile(t, RawName(n), n)
            /\ UNCHANGED said
       ELSE /\ tr' = [tr EXCEPT ![t].pc = "converting", ![t].n = n]
            /\ UNCHANGED <<cacheVars, said>>
    /\ UNCHANGED <<downloadVars, served, rs, rd>>

\* (Acknowledge_later: a handler that answers after the download.)
Acknowledge_later(n) == [resp |-> "none", said |-> said]

\* res.json({success: true, ..., status: 'downloading'}), sent before
\* downloadDocument is called
Acknowledge(n) ==
    [resp |-> "downloading", said |-> Note("api", "downloading", n)]

\* GET /api/download/latest after getLatestIssueUrl() answered issue n
ApiResolved(n) ==
    /\ ~Busy
    /\ tr["api"].pc = "resolving"
    /\ IF isIssueInCache(n)
       THEN /\ IF getCachedFilePath = <<>>
               THEN /\ tr' = End("api")
                    /\ said' = Note("api", "500", n)
               ELSE /\ tr' = [tr EXCEPT !["api"].pc = "streaming", !["api"].n = n,
                                 !["api"].seen = getMetadata,
                                 !["api"].path = CachePath(getCachedFilePath),
                                 !["api"].size = StatSize(CachePath(getCachedFilePath))]
                    /\ UNCHANGED said
            /\ UNCHANGED cacheVars
       ELSE IF AlreadyDownloaded(n)
       THEN /\ tr' = [tr EXCEPT !["api"].pc = "caching", !["api"].n = n]
            /\ cacheFile("api", RawName(n), n)
            /\ UNCHANGED said
       ELSE /\ tr' = [tr EXCEPT !["api"].pc = "converting", !["api"].n = n,
                         !["api"].resp = Acknowledge(n).resp]
            /\ said' = Acknowledge(n).said
            /\ UNCHANGED cacheVars
    /\ UNCHANGED <<downloadVars, served, rs, rd>>

\* (StreamsFile_always: a handler that streams the file after every commit.)
StreamsFile_always(t) == t = "api"

\* the call of cacheFile after which the file is streamed to the client: the
\* one in the handler's branch for a file found in downloads, not the one
\* that follows the background download
StreamsFile(t) == t = "api" /\ tr[t].resp = "none"

\* cacheFile returned to, or threw into, the code that called it
Cached(t) ==
    /\ cf.caller = t
    /\ cf.pc \in {"returned", "threw"}
    /\ tr[t].pc = "caching"
    /\ cf' = IdleCf
    /\ IF StreamsFile(t)
       THEN /\ tr' = IF cf.pc = "returned"
                     THEN [tr EXCEPT ![t].pc = "streaming",
                              ![t].seen = getMetadata,
                              ![t].path = CachePath(CacheName(tr[t].n)),
                              ![t].size = StatSize(CachePath(CacheName(tr[t].n)))]
                     ELSE [tr EXCEPT ![t].pc = "streaming",
                              ![t].path = DownloadsPath(RawName(tr[t].n)),
                              ![t].size = StatSize(DownloadsPath(RawName(tr[t].n)))]
            /\ UNCHANGED said
       ELSE /\ tr' = End(t)
            /\ said' = Note(t, IF cf.pc = "returned" THEN "saved to cache"
                               ELSE "error saving to cache", tr[t].n)
    /\ UNCHANGED <<cacheDir, metadata, downloadVars, served, rs, rd>>

\* the read stream of GET /api/download/latest opens its file
ApiOpen ==
    /\ ~Busy
    /\ tr["api"].pc = "streaming"
    /\ tr' = End("api")
    /\ said' = Say("api", IF FileAt(tr["api"].path).exists THEN "200" ELSE "500",
                   tr["api"].n, tr["api"].seen, FileAt(tr["api"].path), TRUE)
    /\ UNCHANGED <<downloadVars, served, rs, cacheVars, rd>>

\* --------------------------------------------------------- downloadDocument
\* downloadDocument returned false: the callers of the API server log and
\* stop; downloadLatestIssue of the root server throws, logs in its catch
\* block and throws again, into a cron callback that neither awaits nor
\* catches
\* (DownloadFalse_rethrow: a catch block that logs and throws the error on.)
DownloadFalse_rethrow(t) ==
    /\ tr' = End(t)
    /\ said' = Note(t, "unhandled rejection", tr[t].n)

DownloadFalse(t) ==
    /\ tr' = End(t)
    /\ said' = Note(t, IF t = "nightly" THEN "unhandled rejection"
                       ELSE "download failed", tr[t].n)

\* startConversion answered with outputFile
ConvImmediate(t, p) ==
    /\ ~Busy
    /\ tr[t].pc = "converting"
    /\ downloadFile(t, p, RawName(tr[t].n))
    /\ tr' = [tr EXCEPT ![t].pc = "fetching"]
    /\ UNCHANGED <<served, rs, cacheVars, rd, said>>

\* startConversion answered with a job id
ConvDeferred(t) ==
    /\ ~Busy
    /\ tr[t].pc = "converting"
    /\ tr' = [tr EXCEPT ![t].pc = "polling", ![t].att = 0]
    /\ UNCHANGED <<downloadVars, served, rs, cacheVars, rd, said>>

\* startConversion threw, or answered with neither outputFile nor id
ConvFails(t) ==
    /\ ~Busy
    /\ tr[t].pc = "converting"
    /\ DownloadFalse(t)
    /\ UNCHANGED <<downloadVars, served, rs, cacheVars, rd>>

\* (PollDecision_errorGoesOn: a loop that takes a failed status check for
\* 'not ready yet'.)
PollDecision_errorGoesOn(ans) ==
    IF ans.status = "succeeded" /\ ans.outputFile THEN "download"
    ELSE IF ans.status = "failed" THEN "throw"
    ELSE "again"

\* (PollDecision_failedGoesOn: a loop body without the 'failed' test.)
PollDecision_failedGoesOn(ans) ==
    IF ans.status = "error" THEN "throw"
    ELSE IF ans.status = "succeeded" /\ ans.outputFile THEN "download"
    ELSE "again"

\* (PollDecision_anyFile: 'succeeded' taken as success without outputFile.)
PollDecision_anyFile(ans) ==
    IF ans.status = "error" THEN "throw"
    ELSE IF ans.status = "succeeded" THEN "download"
    ELSE IF ans.status = "failed" THEN "throw"
    ELSE "again"

\* The body of the poll loop, for the answer of checkConversionStatus: start
\* the download, throw, or go round again.
PollDecision(ans) ==
    IF ans.status = "error" THEN "throw"
    ELSE IF ans.status = "succeeded" /\ ans.outputFile THEN "download"
    ELSE IF ans.status = "failed" THEN "throw"
    ELSE "again"

\* (LoopGoesOn_oneMore: a loop test that lets one more round through.)
LoopGoesOn_oneMore(attempts) == attempts < maxAttempts

\* attempts++ and the loop test attempts < maxAttempts
LoopGoesOn(attempts) == attempts + 1 < maxAttempts

\* sleep is over and checkConversionStatus has answered; an answer that only
\* sends the loop round again comes at most `limit` times
PollAnswer(t, ans, limit) ==
    /\ ~Busy
    /\ tr[t].pc = "polling"
    /\ PollDecision(ans) = "again" => tr[t].att < limit
    /\ PollDecision(ans) = "download" => CanFetch(t, RawName(tr[t].n))
    /\ tr' = [tr EXCEPT ![t].pc = "polled", ![t].ans = ans]
    /\ UNCHANGED <<downloadVars, served, rs, cacheVars, rd, said>>

\* checkConversionStatus: succeeded with outputFile
PollSucceeded(t, p) ==
    /\ tr[t].pc = "polled"
    /\ PollDecision(tr[t].ans) = "download"
    /\ downloadFile(t, p, RawName(tr[t].n))
    /\ tr' = [tr EXCEPT ![t].pc = "fetching", ![t].ans = NoAnswer]
    /\ UNCHANGED <<served, rs, cacheVars, rd, said>>

\* checkConversionStatus: failed, or threw
PollFailed(t) ==
    /\ tr[t].pc = "polled"
    /\ PollDecision(tr[t].ans) = "throw"
    /\ DownloadFalse(t)
    /\ UNCHANGED <<downloadVars, served, rs, cacheVars, rd>>

\* checkConversionStatus: any other answer
PollProcessing(t) ==
    /\ tr[t].pc = "polled"
    /\ PollDecision(tr[t].ans) = "again"
    /\ IF LoopGoesOn(tr[t].att)
       THEN /\ tr' = [tr EXCEPT ![t].pc = "polling", ![t].att = @ + 1,
                                ![t].ans = NoAnswer]
            /\ UNCHANGED said
       ELSE DownloadFalse(t)
    /\ UNCHANGED <<downloadVars, served, rs, cacheVars, rd>>

\* downloadFile resolved: statSync(outputPath), return true, and the caller
\* goes on to cacheFile(filePath, issueNumber)
FetchResolved(t) ==
    /\ tr[t].pc = "fetching"
    /\ dl[t].pc = "resolved"
    /\ IF ~dlDir[RawName(tr[t].n)].exists
       THEN /\ DownloadFalse(t)
            /\ UNCHANGED cacheVars
       ELSE IF t = "cli"
       THEN /\ tr' = End(t)
            /\ said' = Note(t, "download successful", tr[t].n)
            /\ UNCHANGED cacheVars
       ELSE /\ tr' = [tr EXCEPT ![t].pc = "caching"]
            /\ cacheFile(t, RawName(tr[t].n), tr[t].n)
            /\ UNCHANGED said
    /\ dl' = [dl EXCEPT ![t] = IdleCall]
    /\ UNCHANGED <<dlDir, mru, unlinks, served, rs, rd>>

\* downloadFile rejected
FetchRejected(t) ==
    /\ tr[t].pc = "fetching"
    /\ dl[t].pc = "rejected"
    /\ DownloadFalse(t)
    /\ dl' = [dl EXCEPT ![t] = IdleCall]
    /\ UNCHANGED <<dlDir, mru, unlinks, served, rs, cacheVars, rd>>

\* ----------------------------------- root server: the 1 AM cron job
\* cron.schedule('0 1 * * *'): downloadLatestIssue() is called and its promise
\* dropped; the run starts with the awaited fetch of the issues page
NightlyTick ==
    /\ ~Busy
    /\ ~Active("nightly")
    /\ tr' = [tr EXCEPT !["nightly"] = [IdleRun EXCEPT !.pc = "resolving"]]
    /\ UNCHANGED <<downloadVars, served, rs, cacheVars, rd, said>>

\* fetchIssuesPageHtml threw, or extractIssuuUrlFromHtml found no link: the
\* catch block logs and rethrows, and nobody handles the rejection
NightlyLookupFails ==
    /\ ~Busy
    /\ tr["nightly"].pc = "resolving"
    /\ tr' = End("nightly")
    /\ said' = Note("nightly", "unhandled rejection", 0)
    /\ UNCHANGED <<downloadVars, served, rs, cacheVars, rd>>

\* the page links to the document of issue n: downloadDocument(issuuUrl)
NightlyResolved(n) ==
    /\ ~Busy
    /\ tr["nightly"].pc = "resolving"
    /\ tr' = [tr EXCEPT !["nightly"].pc = "converting", !["nightly"].n = n]
    /\ UNCHANGED <<downloadVars, served, rs, cacheVars, rd, said>>

\* the names ending in .pdf that the clean-up tries to unlink: all but the
\* most recently modified
Older(files) ==
    LET pdfs == {f \in DlNames : files[f] # Absent /\ EndsWith(f, "pdf")}
    IN  IF Cardinality(pdfs) > 1 THEN pdfs \ {Newest(pdfs)} ELSE {}

\* the clean-up after a successful download: of the names ending in .pdf
\* only the most recently modified stays, and the ones whose unlinkSync threw
\* (try { fs.unlinkSync(fp) } catch (_) {}, or readdirSync or statSync threw
\* and the whole clean-up was skipped)
KeepNewest(files, stuck) ==
    [f \in DlNames |-> IF f \in Older(files) \ stuck THEN Absent ELSE files[f]]

\* downloadFile resolved and downloadDocument returned: false throws as above,
\* true is followed by the clean-up
NightlyFetched ==
    /\ tr["nightly"].pc = "fetching"
    /\ dl["nightly"].pc = "resolved"
    /\ IF ~dlDir[RawName(tr["nightly"].n)].exists
       THEN /\ DownloadFalse("nightly")
            /\ dl' = [dl EXCEPT !["nightly"] = IdleCall]
            /\ UNCHANGED <<dlDir, mru>>
       ELSE /\ tr' = End("nightly")
            /\ said' = Note("nightly", "download successful", tr["nightly"].n)
            /\ \E stuck \in SUBSET Older(dlDir) :
                 /\ dlDir' = KeepNewest(dlDir, stuck)
                 /\ mru' = SelectSeq(mru, LAMBDA f : KeepNewest(dlDir, stuck)[f] # Absent)
                 /\ dl' = [c \in Callers |->
                             IF c = "nightly" THEN IdleCall
                             ELSE IF /\ dl[c].fd \in DlNames
                                     /\ KeepNewest(dlDir, stuck)[dl[c].fd] = Absent
                             THEN [dl[c] EXCEPT !.fd = Orphan]
                             ELSE dl[c]]
    /\ UNCHANGED <<unlinks, served, rs, cacheVars, rd>>

\* ------------------------------------------------------------ cache readers
\* GET /api/cached-file, the synchronous part of the handler
CachedFileRequest ==
    /\ ~Busy
    /\ rd.pc = "idle"
    /\ IF getCachedFilePath = <<>>
       THEN /\ said' = Note("cached-file", "404", 0)
            /\ UNCHANGED rd
       ELSE /\ rd' = [pc |-> "sending", seen |-> getMetadata,
                      path |-> CachePath(getCachedFilePath)]
            /\ UNCHANGED said
    /\ UNCHANGED <<downloadVars, served, rs, cacheVars, tr>>

\* res.sendFile opens the file
CachedFileSend ==
    /\ ~Busy
    /\ rd.pc = "sending"
    /\ rd' = IdleRead
    /\ said' = Say("cached-file", IF FileAt(rd.path).exists THEN "200" ELSE "404",
                   rd.seen.issueNumber, rd.seen, FileAt(rd.path), TRUE)
    /\ UNCHANGED <<downloadVars, served, rs, cacheVars, tr>>

\* GET /api/status/:issueNumber
StatusRequest(n) ==
    /\ ~Busy
    /\ said' = Note("status",
                    IF isIssueInCache(n)
                    THEN IF getCachedFilePath = <<>> THEN "threw" ELSE "cached"
                    ELSE IF dlDir[RawName(n)].exists THEN "completed"
                    ELSE "not_found",
                    n)
    /\ UNCHANGED <<downloadVars, served, rs, cacheVars, tr, rd>>

\* ------------------------------------------------------------ IssueTracker
\* What the regular expressions of getLatestIssueNumber can see in a text: a
\* text is a sequence of tokens, and a token is one of
\*   "url"     issuu.com/thebpview/docs/issue_<n>
\*   "spaced"  Issue <n>       (white space between word and digits)
\*   "joined"  issue_<n>, issue-<n>, issue<n>
\*   "other"   anything else
\* <n> is a run of digits, so parseInt gives a natural number, 0 included,
\* and never NaN.
Numbers == 0..MaxIssue
Token(kind, n) == [kind |-> kind, n |-> n]
Tokens ==
    {Token(k, n) : k \in {"url", "spaced", "joined"}, n \in Numbers}
        \cup {Token("other", 0)}
RECURSIVE TextsOfLen(_)
TextsOfLen(k) ==
    IF k = 0 THEN {<<>>}
    ELSE {Append(t, tok) : t \in TextsOfLen(k - 1), tok \in Tokens}
RECURSIVE TextsUpTo(_)
TextsUpTo(k) == IF k = 0 THEN {<<>>} ELSE TextsUpTo(k - 1) \cup TextsOfLen(k)

\* the token kinds each pattern matches
UrlPattern == {"url"}               \* /issuu\.com\/thebpview\/docs\/issue[_-]?(\d+)/i
SpacedPattern == {"spaced"}         \* /Issue\s+(\d+)/i
JoinedPattern == {"joined", "url"}  \* /issue[_-]?(\d+)/i

\* text.match(pattern): the capture of the leftmost match, <<>> for null
Match(text, pattern) ==
    LET hits == {i \in 1..Len(text) : text[i].kind \in pattern}
    IN  IF hits = {} THEN <<>>
        ELSE <<text[CHOOSE i \in hits : \A j \in hits : i <= j].n>>

\* an axios.get: it threw, or it answered with a body
Failed == [ok |-> FALSE, body |-> <<>>]
Fetched(body) == [ok |-> TRUE, body |-> body]

\* the first strategy on the body of current-issue.php: <<n>> when it
\* returns n, <<>> when neither pattern group matches
Strategy1(html) ==
    IF Match(html, UrlPattern) # <<>> THEN Match(html, UrlPattern)
    ELSE IF Match(html, SpacedPattern) # <<>> THEN Match(html, SpacedPattern)
    ELSE Match(html, JoinedPattern)

\* (AfterStrategy1_raise: an inner try without its catch.)
AfterStrategy1_raise(page) ==
    IF ~page.ok THEN "throw"
    ELSE IF Strategy1(page.body) # <<>> THEN "return"
    ELSE "fallback"

\* the inner try / catch: return the number found, or fall through
AfterStrategy1(page) ==
    IF ~page.ok THEN "fallback"
    ELSE IF Strategy1(page.body) # <<>> THEN "return"
    ELSE "fallback"

\* $('a').each(...): highestIssue after the anchors from index i on, each
\* anchor being the text of one <a>
RECURSIVE Highest(_, _, _)
Highest(anchors, i, highestIssue) ==
    IF i > Len(anchors) THEN highestIssue
    ELSE LET match == Match(anchors[i], SpacedPattern)
         IN  Highest(anchors, i + 1,
                     IF match # <<>> /\ match[1] > highestIssue
                     THEN match[1] ELSE highestIssue)

\* (Strategy2_lastAnchor: the number of the last matching anchor.)
RECURSIVE LastOf(_, _, _)
LastOf(anchors, i, found) ==
    IF i > Len(anchors) THEN found
    ELSE LET match == Match(anchors[i], SpacedPattern)
         IN  LastOf(anchors, i + 1, IF match # <<>> THEN match[1] ELSE found)
Strategy2_lastAnchor(anchors) == LastOf(anchors, 1, 0)

\* the fallback on the anchors of the publisher page: highestIssue, where 0
\* makes the method throw 'No issue numbers found'
Strategy2(anchors) == Highest(anchors, 1, 0)

IdleLookup == [pc |-> "idle", page |-> Failed, by |-> 0, result |-> 0]

\* getLatestIssueNumber() is called: the first axios.get is under way
GetLatestIssueNumber ==
    /\ rs.pc \in {"idle", "returned", "threw"}
    /\ rs' = [IdleLookup EXCEPT !.pc = "current"]
    /\ UNCHANGED <<downloadVars, served, cacheVars, tr, rd, said>>

\* an axios.get settles
PageArrives(page) ==
    /\ rs.pc \in {"current", "listing"}
    /\ rs' = [rs EXCEPT !.pc = IF rs.pc = "current" THEN "read1" ELSE "read2",
                        !.page = page]
    /\ UNCHANGED <<downloadVars, served, cacheVars, tr, rd, said>>

\* the inner try block and its catch, then the second axios.get
FirstStrategy ==
    /\ rs.pc = "read1"
    /\ rs' = CASE AfterStrategy1(rs.page) = "return" ->
                    [rs EXCEPT !.pc = "returned", !.by = 1,
                               !.result = Strategy1(rs.page.body)[1]]
               [] AfterStrategy1(rs.page) = "fallback" ->
                    [rs EXCEPT !.pc = "listing", !.page = Failed]
               [] OTHER ->
                    [rs EXCEPT !.pc = "threw", !.by = 1]
    /\ UNCHANGED <<downloadVars, served, cacheVars, tr, rd, said>>

\* the fallback and the outer catch, which rethrows
SecondStrategy ==
    /\ rs.pc = "read2"
    /\ rs' = IF rs.page.ok /\ Strategy2(rs.page.body) # 0
             THEN [rs EXCEPT !.pc = "returned", !.by = 2,
                             !.result = Strategy2(rs.page.body)]
             ELSE [rs EXCEPT !.pc = "threw", !.by = 2]
    /\ UNCHANGED <<downloadVars, served, cacheVars, tr, rd, said>>

\* ------------------------------------------------------------------- Init
Init ==
    /\ dlDir = [n \in DlNames |-> Absent]
    /\ mru = <<>>
    /\ dl = [c \in Callers |-> IdleCall]
    /\ unlinks = [n \in TmpNames |-> 0]
    /\ served = NoChoice
    /\ cacheDir = [f \in CacheNames |-> Absent]
    /\ metadata = NoMeta
    /\ cf = IdleCf
    /\ tr = [t \in Runs |-> IdleRun]
    /\ rd = IdleRead
    /\ said = Silent
    /\ rs = IdleLookup

\* ------------------------------------------------- SpecFetch: one downloader
\* downloadFile called again and again by one caller, each call after the
\* previous one settled, with every failure the code handles, and the root
\* server's GET /download handlers reading the directory in between.
CallDownloadFile ==
    \E p \in Payloads, n \in 1..MaxTargets :
        /\ downloadFile("cli", p, RawName(n))
        /\ UNCHANGED notDownload

NextFetch ==
    \/ CallDownloadFile
    \/ DlStatusNot200("cli")
    \/ DlRequestError("cli")
    \/ DlResponse200("cli")
    \/ DlData("cli")
    \/ DlResponseError("cli")
    \/ DlFileError("cli")
    \/ DlFinish("cli")
    \/ DlCloseError("cli")
    \/ DlCloseOk("cli")
    \/ DlRenameOk("cli")
    \/ DlRenameError("cli")
    \/ \E name \in TmpNames : UnlinkDone(name)

SpecFetch == Init /\ [][NextFetch]_vars

\* --------------------------- SpecServe: the downloader and GET /download
NextServe ==
    \/ NextFetch
    \/ GetDownloadIndex
    \/ GetDownloadPart000

SpecServe == Init /\ [][NextServe]_vars

\* ------------------------------------- SpecCache: cacheFile, step by step
\* cacheFile called again and again on complete files of the downloads
\* directory, each call running to its return, throwing, or cut short by a
\* crash of the process between two of its steps.
RECURSIVE SortedRaw(_)
SortedRaw(k) ==
    IF k = 0 THEN <<>> ELSE SortedRaw(k - 1) \o <<RawName(k)>>

InitCache ==
    /\ dlDir \in [DlNames -> {Absent} \cup {File(b) : b \in CompleteBodies}]
    /\ \A n \in TmpNames : dlDir[n] = Absent
    /\ mru = SelectSeq(SortedRaw(MaxIssue), LAMBDA n : dlDir[n].exists)
    /\ dl = [c \in Callers |-> IdleCall]
    /\ unlinks = [n \in TmpNames |-> 0]
    /\ served = NoChoice
    /\ cacheDir = [f \in CacheNames |-> Absent]
    /\ metadata = NoMeta
    /\ cf = IdleCf
    /\ tr = [t \in Runs |-> IdleRun]
    /\ rd = IdleRead
    /\ said = Silent
    /\ rs = IdleLookup

CallCacheFile ==
    \E src \in RawNames, n \in Issues :
        /\ ~Busy
        /\ cacheFile("test", src, n)
        /\ UNCHANGED notCache

NextCacheCalls ==
    \/ CallCacheFile
    \/ CfClear
    \/ CfCopy
    \/ CfHash
    \/ CfHashThrows
    \/ CfSave
    \/ CfSaveThrows
    \/ CfSaveNoChecksum
    \/ CfThrows

\* every call returns or throws
SpecCacheCalls == InitCache /\ [][NextCacheCalls]_vars

NextCache ==
    \/ NextCacheCalls
    \/ CfCrash

\* calls may also be cut short by a crash
SpecCache == InitCache /\ [][NextCache]_vars

\* ----------------- SpecSys: the API server process (scheduler and routes)
\* limit: how many runs may overlap; published: the issue ids the tracker
\* answers with; converted: the documents the conversion service hands out
TriggerStep(limit, published) ==
    \/ WeeklyTick(limit)
    \/ DailyTick(limit)
    \/ ApiRequest(limit)
    \/ \E n \in published : DailyChecked(n)
    \/ \E t \in Triggers : LookupFails(t)
    \/ \E t \in Crons, n \in published : SchedResolved(t, n)
    \/ \E n \in published : ApiResolved(n)
    \/ \E t \in Triggers : Cached(t)
    \/ ApiOpen

\* the answers of checkConversionStatus: every status with and without
\* outputFile, and the ones that matter to runs that overlap
AllAnswers ==
    {Answer(st, f) : st \in {"processing", "succeeded", "failed"}, f \in BOOLEAN}
        \cup {Answer("error", FALSE)}
PlainAnswers ==
    {Answer("processing", FALSE), Answer("succeeded", TRUE), Answer("failed", FALSE)}

DownloadDocumentStep(who, converted, answers, polls) ==
    \/ \E t \in who, p \in converted : ConvImmediate(t, p)
    \/ \E t \in who : ConvDeferred(t)
    \/ \E t \in who : ConvFails(t)
    \/ \E t \in who, ans \in answers : PollAnswer(t, ans, polls)
    \/ \E t \in who, p \in converted : PollSucceeded(t, p)
    \/ \E t \in who : PollFailed(t)
    \/ \E t \in who : PollProcessing(t)
    \/ \E t \in who : FetchResolved(t)
    \/ \E t \in who : FetchRejected(t)

DownloadFileStep(who) ==
    \/ \E t \in who : DlStatusNot200(t)
    \/ \E t \in who : DlRequestError(t)
    \/ \E t \in who : DlResponse200(t)
    \/ \E t \in who : DlData(t)
    \/ \E t \in who : DlResponseError(t)
    \/ \E t \in who : DlFileError(t)
    \/ \E t \in who : DlFinish(t)
    \/ \E t \in who : DlCloseError(t)
    \/ \E t \in who : DlCloseOk(t)
    \/ \E t \in who : DlRenameOk(t)
    \/ \E t \in who : DlRenameError(t)
    \/ \E name \in TmpNames : UnlinkDone(name)

CacheFileStep ==
    \/ CfClear
    \/ CfCopy
    \/ CfHash
    \/ CfHashThrows
    \/ CfSave
    \/ CfSaveThrows
    \/ CfSaveNoChecksum
    \/ CfThrows

ReaderStep ==
    \/ CachedFileRequest
    \/ CachedFileSend
    \/ \E n \in Issues : StatusRequest(n)

\* Overlapping runs, all working on the same few issues.
NextSys ==
    \/ TriggerStep(MaxActive, 1..MaxTargets)
    \/ DownloadDocumentStep(Triggers, 1..MaxServed, PlainAnswers, MaxPolls)
    \/ DownloadFileStep(Triggers)
    \/ CacheFileStep

SpecSys == Init /\ [][NextSys]_vars

\* One run at a time, over every issue and document, next to the requests
\* that read the cache.
NextRead ==
    \/ TriggerStep(1, Issues)
    \/ DownloadDocumentStep(Triggers, 1..MaxServed, PlainAnswers, MaxPolls)
    \/ DownloadFileStep(Triggers)
    \/ CacheFileStep
    \/ ReaderStep

SpecRead == Init /\ [][NextRead]_vars

\* ------ SpecRefresh: the weekly run and GET /api/download/latest, one by one
\* Weekly ticks and requests that never overlap. The conversion service
\* answers every request at once (with the document or with an error), so no
\* run polls. The daily check runs the same downloadLatestIssue: SpecDaily.
Refreshers == {"weekly", "api"}
NextRefresh ==
    \/ WeeklyTick(1)
    \/ ApiRequest(1)
    \/ \E t \in Refreshers : LookupFails(t)
    \/ \E n \in 1..MaxTargets : SchedResolved("weekly", n)
    \/ \E n \in 1..MaxTargets : ApiResolved(n)
    \/ \E t \in Refreshers : Cached(t)
    \/ ApiOpen
    \/ \E t \in Refreshers, p \in 1..MaxServed : ConvImmediate(t, p)
    \/ \E t \in Refreshers : ConvFails(t)
    \/ \E t \in Refreshers : FetchResolved(t)
    \/ \E t \in Refreshers : FetchRejected(t)
    \/ DownloadFileStep(Refreshers)
    \/ CacheFileStep

SpecRefresh == Init /\ [][NextRefresh]_vars

\* ------------------- SpecWeekly: the weekly run, week after week, the
\* tracker answering with any issue
NextWeekly ==
    \/ WeeklyTick(1)
    \/ LookupFails("weekly")
    \/ \E n \in Issues : SchedResolved("weekly", n)
    \/ Cached("weekly")
    \/ DownloadDocumentStep({"weekly"}, 1..MaxServed, PlainAnswers, MaxPolls)
    \/ DownloadFileStep({"weekly"})
    \/ CacheFileStep

SpecWeekly == Init /\ [][NextWeekly]_vars

\* ----------------------- SpecDaily: the daily check, tick after tick
DailyStep(published) ==
    \/ DailyTick(1)
    \/ \E n \in published : DailyChecked(n)
    \/ LookupFails("daily")
    \/ \E n \in published : SchedResolved("daily", n)
    \/ Cached("daily")

NextDaily ==
    \/ DailyStep(1..MaxTargets)
    \/ DownloadDocumentStep({"daily"}, 1..MaxServed, PlainAnswers, MaxPolls)
    \/ DownloadFileStep({"daily"})
    \/ CacheFileStep

SpecDaily == Init /\ [][NextDaily]_vars

\* --------------- SpecApi: GET /api/download/latest, request after request
ApiStep(published) ==
    \/ ApiRequest(1)
    \/ LookupFails("api")
    \/ \E n \in published : ApiResolved(n)
    \/ Cached("api")
    \/ ApiOpen

NextApi ==
    \/ ApiStep(1..MaxTargets)
    \/ DownloadDocumentStep({"api"}, 1..MaxServed, PlainAnswers, MaxPolls)
    \/ DownloadFileStep({"api"})
    \/ CacheFileStep

SpecApi == Init /\ [][NextApi]_vars

\* ------------------- SpecNightly: the cron job of the root server, night
\* after night, over every issue the page may link to
NextNightly ==
    \/ NightlyTick
    \/ NightlyLookupFails
    \/ \E n \in Issues : NightlyResolved(n)
    \/ \E p \in 1..MaxServed : ConvImmediate("nightly", p)
    \/ ConvDeferred("nightly")
    \/ ConvFails("nightly")
    \/ \E ans \in PlainAnswers : PollAnswer("nightly", ans, MaxPolls)
    \/ \E p \in 1..MaxServed : PollSucceeded("nightly", p)
    \/ PollFailed("nightly")
    \/ PollProcessing("nightly")
    \/ NightlyFetched
    \/ FetchRejected("nightly")
    \/ DownloadFileStep({"nightly"})

SpecNightly == Init /\ [][NextNightly]_vars

\* ------------------------ SpecOverlap: two downloaders on the same paths
\* downloadFile called by two callers of one process, a call of one starting
\* while a call of the other is under way or not
Overlappers == {"weekly", "api"}
CallDownloadFileBy(c) ==
    \E p \in 1..MaxServed, n \in 1..MaxTargets :
        /\ downloadFile(c, p, RawName(n))
        /\ UNCHANGED notDownload

NextOverlap ==
    \/ \E c \in Overlappers : CallDownloadFileBy(c)
    \/ DownloadFileStep(Overlappers)

SpecOverlap == Init /\ [][NextOverlap]_vars

\* ------- SpecSched: the first tick of a cron job of DownloadScheduler
\* The process starts with an empty cache, or with the cache and the downloads
\* directory as a committed refresh of issue m left them; one of the two cron
\* jobs fires and its run goes to its end.
Committed(m) ==
    /\ dlDir = [f \in DlNames |-> IF f = RawName(m) THEN File(Body(1)) ELSE Absent]
    /\ mru = <<RawName(m)>>
    /\ cacheDir = [f \in CacheNames |-> IF f = CacheName(m) THEN File(Body(1)) ELSE Absent]
    /\ metadata = MetadataFor(m, Sha256(Body(1)), <<Len(Body(1))>>)
    /\ dl = [c \in Callers |-> IdleCall]
    /\ unlinks = [n \in TmpNames |-> 0]
    /\ served = NoChoice
    /\ cf = IdleCf
    /\ tr = [t \in Runs |-> IdleRun]
    /\ rd = IdleRead
    /\ said = Silent
    /\ rs = IdleLookup

InitSched == Init \/ \E m \in Issues : Committed(m)

FirstTick ==
    /\ said = Silent
    /\ WeeklyTick(1) \/ DailyTick(1)

NextSched ==
    \/ FirstTick
    \/ \E n \in 1..MaxTargets : DailyChecked(n)
    \/ \E t \in Crons : LookupFails(t)
    \/ \E t \in Crons, n \in 1..MaxTargets : SchedResolved(t, n)
    \/ \E t \in Crons : Cached(t)
    \/ DownloadDocumentStep(Crons, 1..MaxServed, PlainAnswers, MaxPolls)
    \/ DownloadFileStep(Crons)
    \/ CacheFileStep

SpecSched == InitSched /\ [][NextSched]_vars

\* ----- SpecStream: GET /api/download/latest next to a weekly run under way
\* The weekly run and the requests overlap, all on the issues the tracker
\* names; the conversion service answers at once, with any of the documents,
\* and no call of the file system fails inside cacheFile.
NextStream ==
    \/ WeeklyTick(MaxActive)
    \/ ApiRequest(MaxActive)
    \/ \E t \in Refreshers : LookupFails(t)
    \/ \E n \in 1..MaxTargets : SchedResolved("weekly", n)
    \/ \E n \in 1..MaxTargets : ApiResolved(n)
    \/ \E t \in Refreshers : Cached(t)
    \/ ApiOpen
    \/ \E t \in Refreshers, p \in Payloads : ConvImmediate(t, p)
    \/ \E t \in Refreshers : ConvFails(t)
    \/ \E t \in Refreshers : FetchResolved(t)
    \/ \E t \in Refreshers : FetchRejected(t)
    \/ DownloadFileStep(Refreshers)
    \/ CfClear
    \/ CfCopy
    \/ CfHash
    \/ CfSave

SpecStream == Init /\ [][NextStream]_vars

\* ------------------- SpecPoll: node app.js <url>, one downloadDocument call
\* main(): downloadDocument(documentUrl) for an issue document, once in the
\* life of the process
CallDownloadDocument ==
    \E n \in 1..MaxTargets :
        /\ ~Busy
        /\ ~Active("cli")
        /\ said = Silent
        /\ tr' = [tr EXCEPT !["cli"] = [IdleRun EXCEPT !.pc = "converting", !.n = n]]
        /\ UNCHANGED <<downloadVars, served, rs, cacheVars, rd, said>>

NextPoll ==
    \/ CallDownloadDocument
    \/ DownloadDocumentStep({"cli"}, 1..MaxServed, AllAnswers, maxAttempts)
    \/ DownloadFileStep({"cli"})

SpecPoll == Init /\ [][NextPoll]_vars

\* --------------------------- SpecResolve: getLatestIssueNumber, call by call
\* the bodies current-issue.php can have, and the anchor lists of the
\* publisher page (one token per anchor text)
CurrentPages == {Fetched(t) : t \in TextsUpTo(MaxTextLen)}
RECURSIVE AnchorsOfLen(_)
AnchorsOfLen(k) ==
    IF k = 0 THEN {<<>>}
    ELSE {Append(a, t) : a \in AnchorsOfLen(k - 1), t \in TextsOfLen(1)}
RECURSIVE AnchorsUpTo(_)
AnchorsUpTo(k) == IF k = 0 THEN {<<>>} ELSE AnchorsUpTo(k - 1) \cup AnchorsOfLen(k)
ListingPages == {Fetched(a) : a \in AnchorsUpTo(MaxAnchors)}

NextResolve ==
    \/ GetLatestIssueNumber
    \/ rs.pc = "current" /\ \E page \in CurrentPages \cup {Failed} : PageArrives(page)
    \/ rs.pc = "listing" /\ \E page \in ListingPages \cup {Failed} : PageArrives(page)
    \/ FirstStrategy
    \/ SecondStrategy

SpecResolve == Init /\ [][NextResolve]_vars



\* ------------------ SpecNames: from the issue number to the names on disk
\* Strings are sequences of characters.
baseUrl == <<"h", "t", "t", "p", "s", ":", "/", "/", "i", "s", "s", "u", "u", ".", "c", "o", "m", "/", "t", "h", "e", "b", "p", "v", "i", "e", "w", "/", "d", "o", "c", "s">>
outputDir == <<"d", "o", "w", "n", "l", "o", "a", "d", "s">>
DigitChars == <<"0", "1", "2", "3", "4", "5", "6", "7", "8", "9">>
IsDigit(c) == \E d \in 1..10 : DigitChars[d] = c
DigitValue(c) == (CHOOSE d \in 1..10 : DigitChars[d] = c) - 1
Letters == {"a", "b", "c", "d", "e", "f", "g", "h", "i", "j", "k", "l", "m", "n", "o", "p", "q", "r", "s", "t", "u", "v", "w", "x", "y", "z",
            "A", "B", "C", "D", "E", "F", "G", "H", "I", "J", "K", "L", "M", "N", "O", "P", "Q", "R", "S", "T", "U", "V", "W", "X", "Y", "Z"}

\* String(n) of a template literal, for a non-negative integer below 10^21
\* (plain decimal notation)
RECURSIVE DecimalString(_)
DecimalString(n) ==
    IF n < 10 THEN <<DigitChars[n + 1]>>
    ELSE DecimalString(n \div 10) \o <<DigitChars[(n % 10) + 1]>>

\* the value of a sequence of digits
RECURSIVE DigitsValue(_)
DigitsValue(ds) ==
    IF ds = <<>> THEN 0
    ELSE 10 * DigitsValue(SubSeq(ds, 1, Len(ds) - 1)) + DigitValue(ds[Len(ds)])

\* s.split(sep): the pieces between the separators
RECURSIVE Split(_, _)
Split(s, sep) ==
    IF \A i \in 1..Len(s) : s[i] # sep THEN <<s>>
    ELSE LET k == CHOOSE i \in 1..Len(s) :
                      s[i] = sep /\ \A j \in 1..(i - 1) : s[j] # sep
         IN  <<SubSeq(s, 1, k - 1)>> \o Split(SubSeq(s, k + 1, Len(s)), sep)

\* parts.pop(), parts[parts.length - 1]
Pop(parts) == parts[Len(parts)]

RECURSIVE TrimStart(_)
TrimStart(s) == IF s = <<>> \/ s[1] # " " THEN s ELSE TrimStart(Tail(s))
RECURSIVE TrimEnd(_)
TrimEnd(s) ==
    IF s = <<>> \/ s[Len(s)] # " " THEN s ELSE TrimEnd(SubSeq(s, 1, Len(s) - 1))
\* s.trim()
Trim(s) == TrimEnd(TrimStart(s))

\* parseInt(s, 10): leading blanks skipped, an optional sign, then the longest
\* run of digits; NaN when there is none
\* a JavaScript number: NaN or an integer
NaN == [nan |-> TRUE, value |-> 0]
Num(v) == [nan |-> FALSE, value |-> v]
parseInt(s) ==
    LET t == TrimStart(s)
        signed == t # <<>> /\ t[1] \in {"+", "-"}
        u == IF signed THEN Tail(t) ELSE t
        k == CHOOSE i \in 0..Len(u) :
                 /\ \A j \in 1..i : IsDigit(u[j])
                 /\ i < Len(u) => ~IsDigit(u[i + 1])
    IN  IF k = 0 THEN NaN
        ELSE IF signed /\ t[1] = "-" THEN Num(0 - DigitsValue(SubSeq(u, 1, k)))
        ELSE Num(DigitsValue(SubSeq(u, 1, k)))

\* String(x) of a template literal, for a number
NumberString(x) ==
    IF x.nan THEN <<"N", "a", "N">>
    ELSE IF x.value < 0 THEN <<"-">> \o DecimalString(0 - x.value)
    ELSE DecimalString(x.value)

\* getIssueUrl(issueNumber): `${this.baseUrl}/issue_${issueNumber}`
getIssueUrl(issueNumber) ==
    baseUrl \o <<"/", "i", "s", "s", "u", "e", "_">> \o NumberString(issueNumber)

\* name.replace(/[_-]/g, ' ')
Spaced(name) ==
    [i \in 1..Len(name) |-> IF name[i] \in {"_", "-"} THEN " " ELSE name[i]]

\* (formatFileName_noBlank: a character class without the blank.)
formatFileName_noBlank(name) ==
    Trim(SelectSeq(name, LAMBDA c : c \in Letters \/ IsDigit(c) \/ c \in {"-", "_", "."}))

\* formatFileName(name): name.replace(/[^a-zA-Z0-9\-_\. ]/g, '').trim()
formatFileName(name) ==
    Trim(SelectSeq(name, LAMBDA c : c \in Letters \/ IsDigit(c) \/ c \in {"-", "_", ".", " "}))

\* path.join(dir, name) for a directory name and a file name without '/' or '.'
\* segments
PathJoin(dir, name) == dir \o <<"/">> \o name

\* downloadDocument(documentUrl): outputPath
OutputPath(documentUrl) ==
    LET urlParts == Split(documentUrl, "/")
        documentName == Spaced(urlParts[Len(urlParts)])
        fileName == formatFileName(documentName) \o <<".", "p", "d", "f">>
    IN  PathJoin(outputDir, fileName)

\* `issue ${issueNumber}.pdf` joined to downloader.outputDir: filePath of the
\* scheduler and of the API handlers
IssueFilePath(issueNumber) ==
    PathJoin(outputDir, <<"i", "s", "s", "u", "e", " ">> \o NumberString(issueNumber)
                            \o <<".", "p", "d", "f">>)

\* getLatestIssueUrl() returns the URL of issue n
GetLatestIssueUrl(n) ==
    /\ rs.pc = "idle"
    /\ ~Active("weekly")
    /\ rs' = [pc |-> "returned", page |-> Failed, by |-> 0, result |-> n,
              url |-> getIssueUrl(Num(n))]
    /\ tr' = [tr EXCEPT !["weekly"].pc = "resolving"]
    /\ UNCHANGED <<downloadVars, served, cacheVars, rd, said>>

\* downloadLatestIssue: issueNumber parsed from the URL, fileName and filePath
\* built from it; no file is there, so downloadDocument is called
ParseUrl ==
    /\ tr["weekly"].pc = "resolving"
    /\ rs.pc = "returned"
    /\ LET issueNumber == parseInt(Pop(Split(rs.url, "_")))
       IN  tr' = [tr EXCEPT !["weekly"].pc = "converting",
                            !["weekly"].n = issueNumber,
                            !["weekly"].path =
                                DownloadsPath(IssueFilePath(issueNumber))]
    /\ UNCHANGED <<downloadVars, served, cacheVars, rd, said, rs>>

\* downloadDocument(latestIssueUrl) has computed the path it will write to
DocumentPath ==
    /\ tr["weekly"].pc = "converting"
    /\ dl["weekly"].out = <<>>
    /\ dl' = [dl EXCEPT !["weekly"].out = OutputPath(rs.url)]
    /\ UNCHANGED <<dlDir, mru, unlinks, served, cacheVars, tr, rd, said, rs>>

NextNames ==
    \/ \E n \in 1..MaxNumber : GetLatestIssueUrl(n)
    \/ ParseUrl
    \/ DocumentPath

SpecNames == Init /\ [][NextNames]_vars

\* ================================================================= claims
Whole(file) == file.exists /\ file.data \in CompleteBodies

\* C1: whatever stage of downloadFile fails (status, request, response, write
\* stream, close, rename), outputPath either does not exist or holds exactly
\* the complete bytes of a transfer; it is never a partial file.
C1_OutputNeverPartial ==
    \A n \in Issues : dlDir[RawName(n)].exists => Whole(dlDir[RawName(n)])

\* a call failed in the middle of its body while an earlier complete file is
\* in place under the same outputPath
C1_Witness ==
    \E c \in Callers :
        /\ dl[c].pc = "rejected"
        /\ dl[c].pos > 0 /\ dl[c].pos < Size(dl[c].body)
        /\ dlDir[dl[c].out].exists

\* C3 (as claimed): every file a GET /download handler chooses is a fully
\* written, renamed file, never the temporary file of a running downloadFile.
C3_ServedFileIsComplete ==
    served.status = 200 => served.name \in RawNames /\ Whole(served.data)

\* the metadata names a file that is there and, where a checksum was stored,
\* hashes to it
ValidSlot(slot) ==
    /\ slot.meta.kind = "json"
    /\ slot.file.exists
    /\ slot.meta.checksum # <<>> => slot.meta.checksum = Sha256(slot.file.data)

\* C4 (as claimed): cacheFile copies, hashes, writes the new metadata and only
\* then deletes the previously cached artifact: the old artifact is never gone
\* while the new metadata is not yet written.
C4_OldDeletedAfterNewMetadata ==
    (/\ cf.pc \notin {"idle", "threw"}
     /\ cf.oldFile # <<>>
     /\ cf.oldFile # CacheName(cf.issueNumber)
     /\ ~cacheDir[cf.oldFile].exists)
        => (metadata.kind = "json" /\ metadata.issueNumber = cf.issueNumber)

\* C5 (as claimed): a cacheFile call that started from a valid (or empty) slot
\* and was interrupted, by a crash or by an exception, leaves the slot as it
\* was before the call or as the completed call would leave it.
C5_InterruptedLeavesOldOrNew ==
    (/\ cf.pc \in {"crashed", "threw"}
     /\ (cf.old.meta.kind = "none" \/ ValidSlot(cf.old)))
        => \/ Slot(metadata, cacheDir) = cf.old
           \/ /\ ValidSlot(Slot(metadata, cacheDir))
              /\ metadata.issueNumber = cf.issueNumber
              /\ cacheDir[CacheName(cf.issueNumber)] = cf.new

\* C6 (as claimed): between cacheFile calls that returned or threw, a
\* metadata.json that exists names a file that exists, is complete and has the
\* recorded checksum.
C6_MetadataNamesCompleteFile ==
    (~CfRunning /\ metadata.kind = "json")
        => /\ Whole(cacheDir[metadata.fileName])
           /\ ValidSlot(Slot(metadata, cacheDir))

\* C7 (as claimed): between cacheFile calls, interrupted ones and re-commits
\* of an issue number included, getCachedFilePath() is null or names a file
\* whose SHA-256 is getMetadata().checksum whenever that field is present.
C7_CachedPathMatchesChecksum ==
    (/\ ~CfRunning
     /\ getCachedFilePath # <<>>
     /\ getMetadata.checksum # <<>>)
        => Sha256(cacheDir[getCachedFilePath].data) = getMetadata.checksum

Refreshing(t) == tr[t].pc \in {"converting", "polling", "fetching"}
C2_OneRefreshPerIssue ==
    \A t, u \in Triggers :
        (t # u /\ Refreshing(t) /\ Refreshing(u)) => tr[t].n # tr[u].n

\* C8: a request that read the metadata and the cached path, and then opened
\* the file, got the file that metadata describes: it is there, and its
\* checksum is the recorded one when one is recorded.
C8_ReaderSeesOneState ==
    (/\ said.by \in {"api", "cached-file"}
     /\ said.what \in {"200", "404", "500"}
     /\ said.seen.kind = "json")
        => /\ said.got.exists
           /\ said.seen.checksum # <<>>
                => Sha256(said.got.data) = said.seen.checksum

\* C10: metadata whose cached file is missing counts as an empty cache: no
\* refresh run concludes "already in cache" while the file is absent, and
\* GET /api/status/:issueNumber does not throw.
C10_MissingArtifactIsEmptyCache ==
    /\ said.what = "already in cache" => said.fileThere
    /\ ~(said.by = "status" /\ said.what = "threw")

\* The artifacts in the cache directory: every file but metadata.json.
Artifacts == {f \in CacheNames : cacheDir[f].exists}

\* C11: a cacheFile(path, n) call on a cache that holds issue m, with an
\* existing source, returns with metadata for issue n and with
\* latest_issue_<n>.pdf as the only artifact of the cache directory.
C11_CommitReplacesOldIssue ==
    (cf.pc = "returned" /\ cf.old.meta.kind = "json")
        => /\ getMetadata.issueNumber = cf.issueNumber
           /\ Artifacts = {CacheName(cf.issueNumber)}

C11_Witness ==
    /\ cf.pc = "returned"
    /\ cf.old.meta.kind = "json"
    /\ cf.old.file.exists
    /\ cf.old.meta.issueNumber # cf.issueNumber
    /\ getMetadata.issueNumber = cf.issueNumber

\* C12: the step in which cacheFile is called with a source path that does
\* not exist throws and changes neither metadata.json nor any file of the
\* cache directory.
C12_MissingSourceLeavesCache ==
    [][(cf' # cf /\ cf.pc \notin {"entered", "cleared", "copied", "hashed", "nohash"}
        /\ ~dlDir[cf'.src].exists)
          => (cf'.pc = "threw" /\ cacheDir' = cacheDir /\ metadata' = metadata)]_vars

C12_Witness ==
    /\ cf.pc = "threw"
    /\ ~cf.new.exists
    /\ cf.old.meta.kind = "json"
    /\ cf.old.file.exists
    /\ Slot(metadata, cacheDir) = cf.old

\* C13: a cacheFile call whose checksum computation failed and which returned
\* has written metadata for the new issue (issueNumber, fileName) without
\* checksum, and getCachedFilePath() is the path it returned; the catch block
\* is entered with the copied file in place.
C13_NoChecksumStillCommits ==
    /\ (cf.pc = "returned" /\ cf.sum = <<>>)
          => /\ metadata = MetadataFor(cf.issueNumber, <<>>, <<>>)
             /\ getCachedFilePath = CacheName(cf.issueNumber)
    /\ (cf.pc = "nohash") => cacheDir[CacheName(cf.issueNumber)].exists

C13_Witness ==
    /\ cf.pc = "returned"
    /\ cf.sum = <<>>
    /\ metadata.kind = "json"
    /\ metadata.checksum = <<>>
    /\ cf.old.meta.kind = "json"

\* C14: in every state reached through cacheFile calls, returned, thrown or
\* cut short, the cache directory holds at most one artifact.
C14_AtMostOneArtifact == Cardinality(Artifacts) <= 1

C14_Witness ==
    /\ cf.pc = "copied"
    /\ cf.oldFile # <<>>
    /\ cf.oldFile # CacheName(cf.issueNumber)
    /\ Cardinality(Artifacts) = 1

\* C15: while every status poll of a deferred job answers 'processing',
\* downloadDocument polls again after each of the first maxAttempts - 1
\* answers and fails on answer number maxAttempts; no poll is ever the
\* (maxAttempts + 1)-th.  tr[t].att counts the polls already handled.
C15_TimeoutAfterMaxAttemptsPolls ==
    [][\A t \in Runs :
          (tr[t].pc = "polled" /\ tr[t].ans.status = "processing")
            => /\ tr[t].att < maxAttempts
               /\ IF tr[t].att + 1 = maxAttempts
                  THEN /\ tr'[t].pc = "idle"
                       /\ said' = Note(t, "download failed", tr[t].n)
                       /\ dl' = dl
                  ELSE /\ tr'[t].pc = "polling"
                       /\ tr'[t].att = tr[t].att + 1]_vars

C15_Witness ==
    /\ tr["cli"].pc = "polled"
    /\ tr["cli"].ans.status = "processing"
    /\ tr["cli"].att + 1 = maxAttempts

\* C16: the step that handles a poll answer 'failed' ends the call with
\* failure: the run is over (so no further poll), and no download was started.
C16_FailedPollEndsCall ==
    [][\A t \in Runs :
          (tr[t].pc = "polled" /\ tr[t].ans.status = "failed")
            => /\ tr'[t].pc = "idle"
               /\ said' = Note(t, "download failed", tr[t].n)
               /\ dl' = dl
               /\ dlDir' = dlDir]_vars

C16_Witness ==
    /\ tr["cli"].pc = "polled"
    /\ tr["cli"].ans.status = "failed"
    /\ tr["cli"].att >= 1

\* C17: in the deferred path the download starts only in the step that
\* handles an answer 'succeeded' with outputFile; an answer that is neither
\* that nor 'failed' nor an error starts no download, and sends the loop
\* round again while polls are left.
C17_DownloadOnlyAfterSucceededWithFile ==
    [][\A t \in Runs :
          /\ (tr[t].pc \in {"polling", "polled"} /\ tr'[t].pc = "fetching")
               => /\ tr[t].pc = "polled"
                  /\ tr[t].ans.status = "succeeded"
                  /\ tr[t].ans.outputFile
          /\ (/\ tr[t].pc = "polled"
              /\ tr[t].ans.status \notin {"failed", "error"}
              /\ ~(tr[t].ans.status = "succeeded" /\ tr[t].ans.outputFile))
               => /\ dl' = dl
                  /\ tr[t].att + 1 < maxAttempts
                       => (tr'[t].pc = "polling" /\ tr'[t].att = tr[t].att + 1)]_vars

C17_Witness ==
    /\ tr["cli"].pc = "fetching"
    /\ tr["cli"].att >= 1
    /\ dl["cli"].pc = "requested"

\* C18: whenever getLatestIssueNumber returns, by either strategy, the number
\* it returns is a positive integer.
C18_ReturnsPositive ==
    rs.pc = "returned" => rs.result >= 1

\* C19: when the first strategy fails (the current-issue page cannot be
\* fetched, or nothing in it matches) the call goes on to fetch the listing
\* page; the call throws only out of the listing-page strategy, and only when
\* that page could not be fetched or gave no number.
C19_FirstStrategyNeverRaises ==
    [][/\ (rs.pc = "read1" /\ (~rs.page.ok \/ Strategy1(rs.page.body) = <<>>))
            => rs'.pc = "listing"
       /\ (rs'.pc = "threw" /\ rs.pc # "threw")
            => /\ rs.pc = "read2"
               /\ \/ ~rs.page.ok
                  \/ \A i \in 1..Len(rs.page.body) :
                        \/ Match(rs.page.body[i], SpacedPattern) = <<>>
                        \/ Match(rs.page.body[i], SpacedPattern)[1] = 0]_vars

\* the first strategy found nothing and the listing page gave the number
C19_Witness ==
    /\ rs.pc = "returned"
    /\ rs.by = 2
    /\ rs.result >= 1

\* the numbers of the anchors whose text matches 'Issue <N>'
AnchorNumbers(anchors) ==
    {Match(anchors[i], SpacedPattern)[1] :
        i \in {j \in 1..Len(anchors) : Match(anchors[j], SpacedPattern) # <<>>}}

\* C20: a number returned by the listing-page strategy is one of the numbers
\* of the matching anchors and no matching anchor has a greater one, wherever
\* the anchors stand in the page.
C20_ListingGivesMaximum ==
    (rs.pc = "returned" /\ rs.by = 2)
        => /\ rs.result \in AnchorNumbers(rs.page.body)
           /\ \A n \in AnchorNumbers(rs.page.body) : n <= rs.result

\* three matching anchors, the greatest number in the middle, the others
\* different from each other
C20_Witness ==
    /\ rs.pc = "returned"
    /\ rs.by = 2
    /\ Len(rs.page.body) = 3
    /\ \A i \in 1..3 : Match(rs.page.body[i], SpacedPattern) # <<>>
    /\ rs.result = Match(rs.page.body[2], SpacedPattern)[1]
    /\ Match(rs.page.body[1], SpacedPattern)[1] < rs.result
    /\ Match(rs.page.body[3], SpacedPattern)[1] < rs.result
    /\ Match(rs.page.body[1], SpacedPattern)[1] # Match(rs.page.body[3], SpacedPattern)[1]

\* the pattern whose match the first strategy returns, and the numbers of
\* all the places of the page that match it
UsedPattern(html) ==
    IF Match(html, UrlPattern) # <<>> THEN UrlPattern
    ELSE IF Match(html, SpacedPattern) # <<>> THEN SpacedPattern
    ELSE JoinedPattern
Candidates(text, pattern) ==
    {text[i].n : i \in {j \in 1..Len(text) : text[j].kind \in pattern}}

\* C21: the number the first strategy returns is the largest of the numbers
\* its pattern matches in the current-issue page.
C21_FirstStrategyGivesLargest ==
    (rs.pc = "returned" /\ rs.by = 1)
        => \A n \in Candidates(rs.page.body, UsedPattern(rs.page.body)) :
                n <= rs.result

\* C22: no scheduled refresh ends in an exception or a rejected promise that
\* nothing handles.
C22_ScheduledFailuresAreCaught ==
    said.what # "unhandled rejection"

\* C23 as stated: when the daily check that follows a daily check resolves
\* the id that one was about, in the callback and again in
\* downloadLatestIssue, it requests no conversion and does not enter cacheFile.
C23_SecondCheckDoesNothing ==
    [][(/\ said.by = "daily"
        /\ tr["daily"].pc = "resolving"
        /\ tr["daily"].n = said.n
        /\ tr'["daily"].n = said.n)
            => tr'["daily"].pc \notin {"converting", "caching"}]_vars

\* the conclusions of a daily check that leave the cache current for the id
LeftCurrent == {"saved to cache", "already in cache", "up-to-date"}

\* C23: when the daily check before left the cache current for the id, the
\* daily check that resolves the same id ends at the staleness test: it does
\* not call downloadLatestIssue, so it requests no conversion and writes
\* nothing to the cache.
C23_SecondCheckAfterCurrentDoesNothing ==
    [][(said.by = "daily" /\ said.what \in LeftCurrent)
            => /\ tr["daily"].pc = "checking"
                    => ~(tr'["daily"].pc = "resolving" /\ tr'["daily"].n = said.n)
               /\ (/\ tr["daily"].pc = "resolving"
                   /\ tr["daily"].n = said.n
                   /\ tr'["daily"].n = said.n)
                    => tr'["daily"].pc \notin {"converting", "caching"}]_vars

\* a check committed the issue and the check after it found the cache up to
\* date for the same id
C23_Witness ==
    /\ said = Note("daily", "up-to-date", metadata.issueNumber)
    /\ metadata.kind = "json"
    /\ cacheDir[CacheName(metadata.issueNumber)].exists
    /\ ~Active("daily")

\* C24: no weekly run ends at the cache test: a weekly run never concludes
\* that the issue is already in the cache without downloading it.
C24_WeeklyAlwaysDownloads ==
    said.by = "weekly" => said.what # "already in cache"

\* C25: a run requests a conversion for issue n only from a state in which
\* the cache metadata does not name n and downloads holds no 'issue n.pdf'.
C25_ChecksPrecedeConversion ==
    [][\A t \in Triggers :
        (tr[t].pc # "converting" /\ tr'[t].pc = "converting")
            => /\ ~(metadata.kind = "json" /\ metadata.issueNumber = tr'[t].n)
               /\ ~dlDir[RawName(tr'[t].n)].exists
               /\ ~(metadata'.kind = "json" /\ metadata'.issueNumber = tr'[t].n)
               /\ ~dlDir'[RawName(tr'[t].n)].exists]_vars

\* the commit of the run before failed, so the file is in downloads and not
\* in the cache; the weekly run on the same issue is in its commit
C25_Witness ==
    /\ said.what = "error saving to cache"
    /\ tr["weekly"].pc = "caching"
    /\ tr["weekly"].n = said.n
    /\ dlDir[RawName(said.n)].exists

\* C26: the issue number in the cache metadata never goes down.
C26_CachedIssueNeverDecreases ==
    [][(metadata.kind = "json" /\ metadata'.kind = "json")
            => metadata'.issueNumber >= metadata.issueNumber]_vars

\* C27: when the handler of GET /api/download/latest is through with a
\* request, it has sent a response: the acknowledgment earlier on, or a file
\* or an error now.
C27_ApiAlwaysResponds ==
    [][(tr["api"].pc # "idle" /\ tr'["api"].pc = "idle")
            => \/ tr["api"].resp # "none"
               \/ said'.by = "api" /\ said'.what \in {"200", "500"}]_vars

\* what the handler of GET /api/download/latest sends
Responses == {"200", "500", "downloading"}

C29_AcknowledgedBeforeConversion ==
    [][/\ (tr["api"].pc # "converting" /\ tr'["api"].pc = "converting")
            => /\ said' = Note("api", "downloading", tr'["api"].n)
               /\ tr'["api"].resp = "downloading"
       /\ tr'["api"].pc \in {"converting", "polling", "polled", "fetching"}
            => tr'["api"].resp = "downloading"]_vars

\* the fetch is under way and the last thing sent is the acknowledgment
C29_Witness ==
    /\ tr["api"].pc = "fetching"
    /\ dl["api"].pc = "piping"
    /\ said = Note("api", "downloading", tr["api"].n)

\* the PDFs of the downloads directory
Pdfs == {f \in RawNames : dlDir[f].exists}

\* C30: while the root server downloads, the directory holds no PDF of an
\* earlier download, and it never holds two PDFs.
C30_PreviousDeletedBeforeDownload ==
    /\ InProgress("nightly") => Pdfs = {}
    /\ Cardinality(Pdfs) <= 1

\* C31: with two downloadFile calls on one outputPath, outputPath holds the
\* complete bytes of one transfer whenever it exists, and no step takes the
\* temporary file away from a call that is still writing it.
C31_OverlapKeepsOutputWhole ==
    [][/\ \A n \in Issues : dlDir'[RawName(n)].exists => Whole(dlDir'[RawName(n)])
       /\ \A c \in Callers :
            (dl[c].pc \in {"requested", "piping"} /\ dl'[c].pc = dl[c].pc)
                => ~(dl[c].fd \in TmpNames /\ dl'[c].fd = Orphan)]_vars

\* the stages of a scheduled run before its call of cacheFile
BeforeCommit == {"checking", "resolving", "converting", "polling", "polled", "fetching"}

\* C32: a scheduled run changes neither metadata.json nor a cached file in any
\* step it takes before its commit, and a run that ends on a failed
\* resolution, conversion or fetch ends from one of these stages: the cache is
\* as the run found it.
C32_FailedRefreshLeavesCache ==
    [][\A t \in Crons :
        /\ tr[t].pc \in BeforeCommit
                => cacheDir' = cacheDir /\ metadata' = metadata
        /\ (/\ tr[t].pc # "idle" /\ tr'[t].pc = "idle"
            /\ said'.what \in {"error", "download failed"})
                => tr[t].pc \in BeforeCommit]_vars

\* a refresh of one issue failed in its download while the cache holds the
\* committed file of another
C32_Witness ==
    /\ said.by \in Crons
    /\ said.what = "download failed"
    /\ metadata.kind = "json"
    /\ metadata.issueNumber # said.n
    /\ metadata.checksum = Sha256(cacheDir[metadata.fileName].data)

\* C33: a scheduled run that found the cache not current and ended with its
\* commit done leaves metadata.json naming the resolved id, the file
\* latest_issue_<id>.pdf in the cache directory with the bytes of the download,
\* and isIssueInCache(id) true.
C33_CommittedRefreshIsCurrent ==
    (said.by \in Crons /\ said.what = "saved to cache")
        => /\ metadata.kind = "json"
           /\ metadata.issueNumber = said.n
           /\ metadata.fileName = CacheName(said.n)
           /\ cacheDir[CacheName(said.n)].exists
           /\ cacheDir[CacheName(said.n)].data = dlDir[RawName(said.n)].data
           /\ isIssueInCache(said.n)

\* the daily check committed an issue and the metadata carries its checksum
C33_Witness ==
    /\ said.by = "daily"
    /\ said.what = "saved to cache"
    /\ isIssueInCache(said.n)
    /\ metadata.checksum = Sha256(cacheDir[CacheName(said.n)].data)
    /\ Whole(cacheDir[CacheName(said.n)])

C35_PollErrorEndsWait ==
    [][\A t \in Runs :
          (tr[t].pc = "polled" /\ tr[t].ans.status = "error")
            => /\ tr'[t] = IdleRun
               /\ said'.by = t /\ said'.what = "download failed"
               /\ UNCHANGED downloadVars]_vars

\* the first status check threw, with every other attempt still to come
C35_Witness ==
    /\ tr["cli"].pc = "polled"
    /\ tr["cli"].ans = Answer("error", FALSE)
    /\ tr["cli"].att = 0
    /\ tr["cli"].att + 1 < maxAttempts

\* C36: for every issue number n the tracker returns, the number the
\* scheduler parses back from getIssueUrl(n) is n, and the path
\* downloadDocument(getIssueUrl(n)) writes to is the path 'issue n.pdf' under
\* the downloads directory that the scheduler and the API handlers test and
\* hand to cacheFile.
C36_UrlRoundTrip ==
    tr["weekly"].pc = "converting"
        => /\ tr["weekly"].n = Num(rs.result)
           /\ tr["weekly"].path = DownloadsPath(IssueFilePath(Num(rs.result)))
           /\ dl["weekly"].out # <<>>
                => dl["weekly"].out = tr["weekly"].path.name

\* the paths of an issue with a number of three digits have been computed
C36_Witness ==
    /\ tr["weekly"].pc = "converting"
    /\ rs.result >= 100
    /\ dl["weekly"].out = IssueFilePath(Num(rs.result))

\* C37 (as claimed): a run of downloadLatestIssue of the root server that
\* succeeds leaves exactly one PDF in the downloads directory, the most
\* recently modified one; no other step of a run, and in particular none that
\* ends it with a failure, removes a PDF.
C37_OnePdfAfterSuccess ==
    [][tr["nightly"].pc # "idle"
        => IF tr'["nightly"].pc = "idle" /\ said'.what = "download successful"
           THEN Pdfs' = {Newest(Pdfs)}
           ELSE Pdfs \subseteq Pdfs']_vars

\* C38 (as claimed): when the stream of GET /api/download/latest opens the
\* cached file and the response carries X-Content-Checksum, the header is the
\* SHA-256 of the bytes the stream reads and Content-Length is their number,
\* whatever was committed to the cache since the headers were set.
C38_HeadersMatchStreamedBytes ==
    [][(/\ tr["api"].pc = "streaming"
        /\ tr'["api"].pc = "idle"
        /\ said'.what = "200"
        /\ tr["api"].seen.checksum # <<>>)
        => /\ tr["api"].seen.checksum = Sha256(FileAt(tr["api"].path).data)
           /\ tr["api"].size = <<Len(FileAt(tr["api"].path).data)>>]_vars

====
